---- MODULE Spec2Model ----
(***************************************************************************)
(* Model of the MCP protocol engine of app.py: the POST /mcp/sse request   *)
(* handler (handle_mcp_request), the tool dispatcher (_execute_tool,       *)
(* _execute_tool_impl), the tool registry built by _register_mcp_tools and *)
(* the five tool functions the dispatcher calls.                           *)
(*                                                                         *)
(* A decoded JSON value is a record [t, v, m]: t is the Python type the    *)
(* value decodes to, v is what str() prints for it, and m holds the        *)
(* members of a dict as a set of <<key, value>> pairs.  A text (a Python   *)
(* str built by an f-string or by concatenation) is the sequence of its    *)
(* fragments.                                                              *)
(***************************************************************************)
EXTENDS Integers, Sequences, FiniteSets, TLC

VARIABLES
    tools,          \* self.server_state["tools"]: <<name, details>> in insertion order
    tracing,        \* TRACING_ENABLED and tracer
    now,            \* the wall clock read by datetime.now()
    arsenal_cache,  \* lru_cache of get_complete_kali_arsenal_info
    status_cache,   \* lru_cache of get_bleeding_edge_status
    request,        \* the body of the last POST /mcp/sse
    response,       \* the JSONResponse returned for it
    call,           \* what the dispatcher did for it (handler invoked, exception caught)
    spans,          \* the spans the tracer was handed during it
    sessions,       \* the GET /mcp/sse connections: one event_stream generator each
    health,         \* the answer to the last GET /health
    ui,             \* the last click of a button of the Gradio interface and its outcome
    registration    \* the last assignment to self.server_state["tools"] and its outcome

vars == <<tools, tracing, now, arsenal_cache, status_cache, request, response, call, spans,
          sessions, health, ui, registration>>

\* ---------------------------------------------------------------- bounds
MaxTime == 1
\* the clock bound of the specification of the heartbeat timing
MaxClock == 31

\* ------------------------------------------------------- JSON values
J_str(s)  == [t |-> "str",  v |-> s, m |-> {}]
J_int(s)  == [t |-> "int",  v |-> s, m |-> {}]
J_null    == [t |-> "null", v |-> "None", m |-> {}]
J_list(s) == [t |-> "list", v |-> s, m |-> {}]
J_map(ps) == [t |-> "map",  v |-> "{...}", m |-> ps]

\* type(x).__name__
TypeName(x) ==
    CASE x.t = "str"  -> "str"
      [] x.t = "int"  -> "int"
      [] x.t = "null" -> "NoneType"
      [] x.t = "list" -> "list"
      [] x.t = "map"  -> "dict"

\* bool(x)
Truthy(x) ==
    CASE x.t = "str"  -> x.v # ""
      [] x.t = "int"  -> x.v # "0"
      [] x.t = "null" -> FALSE
      [] x.t = "list" -> x.v # "[]"
      [] x.t = "map"  -> x.m # {}

\* hash(x) succeeds
Hashable(x) == x.t \in {"str", "int", "null"}

\* len(x) succeeds
Sized(x) == x.t \in {"str", "list", "map"}

\* len(x)
PyLen(x) ==
    CASE x.t = "str"  -> Len(x.v)
      [] x.t = "list" -> IF x.v = "[]" THEN 0 ELSE 1
      [] x.t = "map"  -> Cardinality(x.m)
      [] OTHER        -> 0

\* f"{x}"
PyStr(x) == x.v

\* d.get(k, dflt) on a dict d
HasKey(d, k) == \E p \in d.m : p[1] = k
Get(d, k, dflt) == IF HasKey(d, k) THEN (CHOOSE p \in d.m : p[1] = k)[2] ELSE dflt

\* str(e) of the AttributeError of x.attr
AttributeError(x, attr) ==
    "'" \o TypeName(x) \o "' object has no attribute '" \o attr \o "'"

\* str(e) of the TypeError of hashing x
UnhashableError(x) == "unhashable type: '" \o TypeName(x) \o "'"

\* str(e) of the TypeError of len(x)
NoLenError(x) == "object of type '" \o TypeName(x) \o "' has no len()"

\* the outcome of a Python call: a returned text or a raised exception
Ok(text)   == [ok |-> TRUE,  val |-> text, exc |-> ""]
Raise(msg) == [ok |-> FALSE, val |-> <<>>, exc |-> msg]

\* str(n) of a natural number
Digit(d) == <<"0", "1", "2", "3", "4", "5", "6", "7", "8", "9">>[d + 1]
RECURSIVE IntStr(_)
IntStr(n) == IF n < 10 THEN Digit(n) ELSE IntStr(n \div 10) \o Digit(n % 10)

\* s.upper() for the strings of the model
Upper(s) ==
    CASE s = "reconnaissance"        -> "RECONNAISSANCE"
      [] s = "web"                   -> "WEB"
      [] s = "comprehensive"         -> "COMPREHENSIVE"
      [] s = "Information Gathering" -> "INFORMATION GATHERING"
      [] s = "abc"                   -> "ABC"
      [] OTHER                       -> s

\* ------------------------------------------------------- constants
MCP_VERSION == "2024-11-05"

SERVER_INFO ==
    [name |-> "darkdriftz-bleeding-edge-kali-mcp-unified",
     version |-> "3.0.0",
     capabilities |->
        [bleeding_edge |-> TRUE, auto_updates |-> TRUE, experimental_tools |-> TRUE,
         gradio_interface |-> TRUE, mcp_integration |-> TRUE, unified_platform |-> TRUE,
         gemini_3_pro_preview |-> TRUE]]

PLATFORM_TYPE == "Unified Hugging Face Spaces + MCP Server"

\* get_kali_arsenal_data(): category -> count, in the order of the dict
get_kali_arsenal_data ==
    << <<"Information Gathering", 85>>, <<"Vulnerability Analysis", 62>>,
       <<"Web Applications", 58>>, <<"Password Attacks", 42>>,
       <<"Wireless Attacks", 38>>, <<"Exploitation Tools", 55>>,
       <<"Forensics", 48>>, <<"Reverse Engineering", 35>>,
       <<"Hardware Hacking", 28>>, <<"Crypto & Stego", 32>>,
       <<"Reporting Tools", 25>>, <<"Social Engineering", 22>>,
       <<"Sniffing & Spoofing", 31>> >>

CategoryNames == {get_kali_arsenal_data[i][1] : i \in DOMAIN get_kali_arsenal_data}

BLEEDING_EDGE_CONFIG == [enabled |-> TRUE, additional_tools_count |-> 150]

RECURSIVE SumCounts(_)
SumCounts(i) == IF i = 0 THEN 0 ELSE get_kali_arsenal_data[i][2] + SumCounts(i - 1)

get_standard_tool_count == SumCounts(Len(get_kali_arsenal_data))

get_total_tool_count ==
    SumCounts(Len(get_kali_arsenal_data)) + BLEEDING_EDGE_CONFIG.additional_tools_count

\* datetime.strftime of the clock value
TimeStr(t) == "T" \o IntStr(t)

\* ------------------------------------------------------- tool functions
\* the state of an lru_cache(maxsize=1) of a function without arguments
EmptyCache == [set |-> FALSE, val |-> <<>>]
\* mutant: the decorator is left off, nothing is kept
Cached_never_set(text) == [set |-> FALSE, val |-> <<>>]

Cached(text) == [set |-> TRUE, val |-> text]

\* the body of get_complete_kali_arsenal_info (lines 308-348)
arsenal_info_text ==
    LET total_tools == SumCounts(Len(get_kali_arsenal_data))
        bleeding_edge_tools == BLEEDING_EDGE_CONFIG.additional_tools_count
    IN  <<"**TOTAL ARSENAL: ", IntStr(total_tools + bleeding_edge_tools),
          " CYBERSECURITY TOOLS**", "- **Standard Kali Tools**: ", IntStr(total_tools),
          "- **Bleeding Edge Tools**: ", IntStr(bleeding_edge_tools),
          "- **Security Categories**: ", IntStr(Len(get_kali_arsenal_data)),
          "- **Protocol**: MCP ", MCP_VERSION>>

\* @lru_cache get_complete_kali_arsenal_info(): [out, cache]
get_complete_kali_arsenal_info(cache) ==
    IF cache.set
    THEN [out |-> Ok(cache.val), cache |-> cache]
    ELSE [out |-> Ok(arsenal_info_text), cache |-> Cached(arsenal_info_text)]

\* the body of get_bleeding_edge_status (lines 539-581) at clock value t
bleeding_edge_status_text(t) ==
    <<"BLEEDING EDGE REPOSITORY STATUS - DARKDRIFTZ", "- **Status**: ",
      IF BLEEDING_EDGE_CONFIG.enabled THEN "ACTIVE" ELSE "INACTIVE",
      "- **Last Sync**: ", TimeStr(t), "- **Protocol**: MCP ", MCP_VERSION>>

\* mutant: the cached text is built again on every call
get_bleeding_edge_status_refreshes(cache, t) ==
    [out |-> Ok(bleeding_edge_status_text(t)), cache |-> Cached(bleeding_edge_status_text(t))]

\* @lru_cache get_bleeding_edge_status(): [out, cache]
get_bleeding_edge_status(cache, t) ==
    IF cache.set
    THEN [out |-> Ok(cache.val), cache |-> cache]
    ELSE [out |-> Ok(bleeding_edge_status_text(t)),
          cache |-> Cached(bleeding_edge_status_text(t))]

\* get_kali_tool_category(category_name)
get_kali_tool_category(category_name) ==
    IF ~Truthy(category_name)
    THEN Ok(<<"Invalid category. Available categories: ", "Information Gathering, ...">>)
    ELSE IF ~Hashable(category_name)
    THEN Raise(UnhashableError(category_name))
    ELSE IF ~(category_name.t = "str" /\ category_name.v \in CategoryNames)
    THEN Ok(<<"Invalid category. Available categories: ", "Information Gathering, ...">>)
    ELSE LET i == CHOOSE j \in DOMAIN get_kali_arsenal_data :
                      get_kali_arsenal_data[j][1] = category_name.v
         IN  Ok(<<Upper(category_name.v), " - ", "BLEEDING EDGE ENHANCED",
                  "- **Tool Count**: ", IntStr(get_kali_arsenal_data[i][2])>>)

\* the section run_kali_security_scan_impl appends for a scan type (lines 447-523)
ScanSection(scan_type) ==
    CASE scan_type = "reconnaissance" -> <<"**RECONNAISSANCE PHASE:**">>
      [] scan_type = "vulnerability"  -> <<"**VULNERABILITY ANALYSIS:**">>
      [] scan_type = "web"            -> <<"**WEB APPLICATION SECURITY:**">>
      [] scan_type = "comprehensive"  -> <<"**COMPREHENSIVE BLEEDING EDGE ASSESSMENT:**">>
      [] OTHER                        -> <<>>

\* run_kali_security_scan_impl(target, scan_type) at clock value t
run_kali_security_scan_impl(target, scan_type, t) ==
    LET tgt == IF ~Truthy(target) THEN J_str("example.com") ELSE target
    IN  IF scan_type.t # "str"
        THEN Raise(AttributeError(scan_type, "upper"))
        ELSE Ok(<<"BLEEDING EDGE SECURITY SCAN INITIATED", "- **Target**: ", PyStr(tgt),
                  "- **Scan Type**: ", Upper(scan_type.v),
                  "- **Timestamp**: ", TimeStr(t)>>
                \o ScanSection(scan_type.v)
                \o <<"SCAN COMPLETED BY DARKDRIFTZ'S BLEEDING EDGE PLATFORM">>)

\* run_kali_security_scan(target, scan_type): [out, spans]; the span is
\* opened when tracing is on and the exception is raised again
run_kali_security_scan(target, scan_type, t, traced) ==
    LET out == run_kali_security_scan_impl(target, scan_type, t)
    IN  IF traced
        THEN [out |-> out,
              spans |-> << [name |-> "security.scan", target |-> PyStr(target),
                            type |-> PyStr(scan_type), success |-> out.ok] >>]
        ELSE [out |-> out, spans |-> <<>>]

\* the section generate_kali_security_report appends for a report type (lines 625-716)
ReportSection(report_type) ==
    CASE report_type = "comprehensive" -> <<"**DETAILED SECURITY FINDINGS:**">>
      [] report_type = "executive"     -> <<"**EXECUTIVE OVERVIEW:**">>
      [] report_type = "technical"     -> <<"**TECHNICAL ASSESSMENT DETAILS:**">>
      [] report_type = "compliance"    -> <<"**COMPLIANCE ASSESSMENT:**">>
      [] OTHER                         -> <<>>

\* generate_kali_security_report(report_type) at clock value t
generate_kali_security_report(report_type, t) ==
    LET total_tools == get_total_tool_count
        bleeding_edge_tools == BLEEDING_EDGE_CONFIG.additional_tools_count
    IN  IF report_type.t # "str"
        THEN Raise(AttributeError(report_type, "upper"))
        ELSE Ok(<<"DARKDRIFTZ BLEEDING EDGE SECURITY ASSESSMENT REPORT",
                  "- **Report Type**: ", Upper(report_type.v),
                  "- **Generated**: ", TimeStr(t),
                  "- **Arsenal**: ", IntStr(total_tools + bleeding_edge_tools),
                  " cybersecurity tools">>
                \o ReportSection(report_type.v)
                \o <<"Total Arsenal: ", IntStr(total_tools + bleeding_edge_tools), " tools",
                     "**Report Generated**: ", TimeStr(t)>>)

\* ------------------------------------------------------- tool registry
\* mutant: each assignment rebinds the mapping to the one new entry
DictSet_rebinds(d, name, details) == << <<name, details>> >>

\* mutant: the mapping is a list of entries, each assignment appends one
DictSet_appends(d, name, details) == Append(d, <<name, details>>)

\* d[name] = details on a dict kept as <<name, details>> pairs in insertion order
DictSet(d, name, details) ==
    IF \E i \in DOMAIN d : d[i][1] = name
    THEN [i \in DOMAIN d |-> IF d[i][1] = name THEN <<name, details>> ELSE d[i]]
    ELSE Append(d, <<name, details>>)

\* mutant: the membership test of line 835 is left out
DictHas_always(d, name) == TRUE

\* name in d
DictHas(d, name) == \E i \in DOMAIN d : d[i][1] = name

NoProperties == [k \in {} |-> k]
StringProperty(desc) == [type |-> "string", description |-> desc]
\* mutant: the descriptor leaves out the required list
Details_without_required(desc, props, req) ==
    [description |-> desc, inputSchema |-> [type |-> "object", properties |-> props]]

Details(desc, props, req) ==
    [description |-> desc,
     inputSchema |-> [type |-> "object", properties |-> props, required |-> req]]

\* _register_mcp_tools: the five assignments to self.server_state["tools"]
register_mcp_tools(d0) ==
    LET d1 == DictSet(d0, "get_complete_kali_arsenal_info",
                Details("Get complete information about DarkDriftz's bleeding edge Kali Linux arsenal",
                        NoProperties, <<>>))
        d2 == DictSet(d1, "get_kali_tool_category",
                Details("Get detailed information about a specific Kali Linux tool category",
                        [category_name |-> StringProperty("Name of the tool category")],
                        <<"category_name">>))
        d3 == DictSet(d2, "run_kali_security_scan",
                Details("Run comprehensive security scan using bleeding edge enhanced tools",
                        [target |-> StringProperty("Target for security scanning"),
                         scan_type |-> StringProperty("Type of scan (reconnaissance, vulnerability, web, etc.)")],
                        <<"target">>))
        d4 == DictSet(d3, "get_bleeding_edge_status",
                Details("Get comprehensive bleeding edge repository status and capabilities",
                        NoProperties, <<>>))
        d5 == DictSet(d4, "generate_kali_security_report",
                Details("Generate professional security assessment reports",
                        [report_type |-> StringProperty("Type of report (comprehensive, executive, technical, compliance)")],
                        <<>>))
    IN  d5

\* mutant: the descriptors are listed in reverse order
tools_list_reversed(d) ==
    [i \in DOMAIN d |-> [name |-> d[Len(d) + 1 - i][1],
                         description |-> d[Len(d) + 1 - i][2].description,
                         inputSchema |-> d[Len(d) + 1 - i][2].inputSchema]]

\* [{"name": name, **details} for name, details in tools.items()]
tools_list(d) ==
    [i \in DOMAIN d |-> [name |-> d[i][1], description |-> d[i][2].description,
                         inputSchema |-> d[i][2].inputSchema]]

\* ------------------------------------------------------- dispatcher
\* _execute_tool_impl(tool_name, arguments): the if-chain over the tool names
\* inside try/except Exception.  invoked is the tool function that was
\* called ("none" when arguments.get raised first), caught tells whether the
\* except clause of line 1015 ran.
\* mutant: the except clause logs the exception and raises it again
ImplResult_reraise(out, invoked, ac, sc, sp) ==
    [ok |-> out.ok, exc |-> out.exc, text |-> out.val,
     invoked |-> invoked, caught |-> ~out.ok,
     arsenal_cache |-> ac, status_cache |-> sc, spans |-> sp]

ImplResult(out, invoked, ac, sc, sp) ==
    [ok |-> TRUE, exc |-> "",
     text |-> IF out.ok THEN out.val ELSE <<"Tool execution failed: ", out.exc>>,
     invoked |-> invoked, caught |-> ~out.ok,
     arsenal_cache |-> ac, status_cache |-> sc, spans |-> sp]

execute_tool_impl(tool_name, arguments, t, traced, ac, sc) ==
    CASE tool_name = "get_complete_kali_arsenal_info" ->
            LET r == get_complete_kali_arsenal_info(ac)
            IN  ImplResult(r.out, "get_complete_kali_arsenal_info", r.cache, sc, <<>>)
      [] tool_name = "get_kali_tool_category" ->
            IF arguments.t # "map"
            THEN ImplResult(Raise(AttributeError(arguments, "get")), "none", ac, sc, <<>>)
            ELSE ImplResult(get_kali_tool_category(Get(arguments, "category_name", J_str(""))),
                            "get_kali_tool_category", ac, sc, <<>>)
      [] tool_name = "run_kali_security_scan" ->
            IF arguments.t # "map"
            THEN ImplResult(Raise(AttributeError(arguments, "get")), "none", ac, sc, <<>>)
            ELSE LET r == run_kali_security_scan(
                              Get(arguments, "target", J_str("example.com")),
                              Get(arguments, "scan_type", J_str("reconnaissance")),
                              t, traced)
                 IN  ImplResult(r.out, "run_kali_security_scan", ac, sc, r.spans)
      [] tool_name = "get_bleeding_edge_status" ->
            LET r == get_bleeding_edge_status(sc, t)
            IN  ImplResult(r.out, "get_bleeding_edge_status", ac, r.cache, <<>>)
      [] tool_name = "generate_kali_security_report" ->
            IF arguments.t # "map"
            THEN ImplResult(Raise(AttributeError(arguments, "get")), "none", ac, sc, <<>>)
            ELSE ImplResult(generate_kali_security_report(
                                Get(arguments, "report_type", J_str("comprehensive")), t),
                            "generate_kali_security_report", ac, sc, <<>>)
      [] OTHER ->
            ImplResult(Ok(<<"Unknown tool: ", tool_name>>), "unknown", ac, sc, <<>>)

\* len(result) of a text: the sum of the lengths of its fragments
RECURSIVE TextLen(_)
TextLen(text) == IF text = <<>> THEN 0 ELSE Len(Head(text)) + TextLen(Tail(text))

\* the span of _execute_tool (lines 975-991): success tells which of the
\* clauses of lines 984 and 988 ran
ToolSpan(tool_name, arguments, r) ==
    IF r.ok
    THEN [name |-> "mcp.tool." \o tool_name, tool |-> tool_name,
          arguments_count |-> PyLen(arguments), success |-> TRUE,
          result_length |-> TextLen(r.text)]
    ELSE [name |-> "mcp.tool." \o tool_name, tool |-> tool_name,
          arguments_count |-> PyLen(arguments), success |-> FALSE, error |-> r.exc]

\* _execute_tool(tool_name, arguments): [ok, exc, text, invoked, caught, caches, spans].
\* With tracing on, len(arguments) is evaluated before the try of line 982,
\* and an exception of _execute_tool_impl is recorded and raised again.
execute_tool(tool_name, arguments, t, traced, ac, sc) ==
    LET r == execute_tool_impl(tool_name, arguments, t, traced, ac, sc)
    IN  IF traced
        THEN IF ~Sized(arguments)
             THEN [ok |-> FALSE, exc |-> NoLenError(arguments), text |-> <<>>,
                   invoked |-> "none", caught |-> FALSE,
                   arsenal_cache |-> ac, status_cache |-> sc,
                   spans |-> << [name |-> "mcp.tool." \o tool_name, tool |-> tool_name] >>]
             ELSE [r EXCEPT !.spans = <<ToolSpan(tool_name, arguments, r)>> \o r.spans]
        ELSE r

\* ------------------------------------------------------- POST /mcp/sse
\* method == "..." on a decoded value
StrEq(x, s) == x.t = "str" /\ x.v = s

NoCall == [invoked |-> "none", caught |-> FALSE]

\* mutant: the except clause leaves out status_code=500
InternalError_status200(exc, ac, sc, sp) ==
    [status |-> 200,
     body |-> [jsonrpc |-> "2.0", id |-> J_str("error"),
               error |-> [code |-> -32603, message |-> <<"Internal error: ", exc>>]],
     call |-> [invoked |-> "none", caught |-> FALSE],
     arsenal_cache |-> ac, status_cache |-> sc, spans |-> sp]

\* the except clause of handle_mcp_request (lines 872-881)
InternalError(exc, ac, sc, sp) ==
    [status |-> 500,
     body |-> [jsonrpc |-> "2.0", id |-> J_str("error"),
               error |-> [code |-> -32603, message |-> <<"Internal error: ", exc>>]],
     call |-> NoCall, arsenal_cache |-> ac, status_cache |-> sc, spans |-> sp]

\* mutant: every response is given an error member, null when there is no error
Answer_with_error_member(content, c, ac, sc, sp) ==
    [status |-> 200, body |-> content @@ [error |-> J_null], call |-> c,
     arsenal_cache |-> ac, status_cache |-> sc, spans |-> sp]

\* return JSONResponse(content=response) (line 870)
Answer(content, c, ac, sc, sp) ==
    [status |-> 200, body |-> content, call |-> c,
     arsenal_cache |-> ac, status_cache |-> sc, spans |-> sp]

\* the result of the initialize branch (lines 856-860)
initialize_result_old_protocol ==
    [protocolVersion |-> "2024-10-07",
     capabilities |-> SERVER_INFO.capabilities,
     serverInfo |-> SERVER_INFO]

initialize_result ==
    [protocolVersion |-> MCP_VERSION,
     capabilities |-> SERVER_INFO.capabilities,
     serverInfo |-> SERVER_INFO]

\* arguments = params.get("arguments", {}) (line 833)
call_arguments_none(params) == Get(params, "arguments", J_null)

call_arguments(params) == Get(params, "arguments", J_map({}))

\* the tools/call branch (lines 831-850)
tools_call(d, params, request_id, t, traced, ac, sc) ==
    IF params.t # "map"
    THEN InternalError(AttributeError(params, "get"), ac, sc, <<>>)
    ELSE LET tool_name == Get(params, "name", J_str(""))
             arguments == call_arguments(params)
         IN  IF ~Hashable(tool_name)
             THEN InternalError(UnhashableError(tool_name), ac, sc, <<>>)
             ELSE IF tool_name.t = "str" /\ DictHas(d, tool_name.v)
             THEN LET r == execute_tool(tool_name.v, arguments, t, traced, ac, sc)
                  IN  IF ~r.ok
                      THEN [InternalError(r.exc, r.arsenal_cache, r.status_cache, r.spans)
                                EXCEPT !.call = [invoked |-> r.invoked, caught |-> r.caught,
                                                 arguments |-> arguments]]
                      ELSE Answer([jsonrpc |-> "2.0", id |-> request_id,
                                   result |-> [content |-> << [type |-> "text", text |-> r.text] >>,
                                               isError |-> FALSE]],
                                  [invoked |-> r.invoked, caught |-> r.caught,
                                   arguments |-> arguments, text |-> r.text],
                                  r.arsenal_cache, r.status_cache, r.spans)
             ELSE Answer([jsonrpc |-> "2.0", id |-> request_id,
                          error |-> [code |-> -32601,
                                     message |-> <<"Tool not found: ", PyStr(tool_name)>>]],
                         NoCall, ac, sc, <<>>)

\* mutant: a missing method defaults to the handshake
request_method_initialize(data) == Get(data, "method", J_str("initialize"))

\* method = data.get("method", "") (line 819)
request_method(data) == Get(data, "method", J_str(""))

\* mutant: data.get("id"), a missing id is None
request_id_of_none(data, uuid) == Get(data, "id", J_null)

\* request_id = data.get("id", str(uuid.uuid4())) (line 821)
request_id_of(data, uuid) == Get(data, "id", J_str(uuid))

\* mutant: an unknown method is raised as an exception
method_not_found_raises(method, request_id, ac, sc) ==
    InternalError("Method not found: " \o PyStr(method), ac, sc, <<>>)

\* the else branch of the method chain (lines 863-868)
method_not_found(method, request_id, ac, sc) ==
    Answer([jsonrpc |-> "2.0", id |-> request_id,
            error |-> [code |-> -32601,
                       message |-> <<"Method not found: ", PyStr(method)>>]],
           NoCall, ac, sc, <<>>)

\* handle_mcp_request on a request body; uuid is the value of str(uuid.uuid4())
handle_mcp_request(d, body, uuid, t, traced, ac, sc) ==
    IF body.kind = "undecodable"
    THEN InternalError("Expecting value: line 1 column 1 (char 0)", ac, sc, <<>>)
    ELSE IF body.data.t # "map"
    THEN InternalError(AttributeError(body.data, "get"), ac, sc, <<>>)
    ELSE LET data == body.data
             method == request_method(data)
             params == Get(data, "params", J_map({}))
             request_id == request_id_of(data, uuid)
         IN  IF StrEq(method, "tools/list")
             THEN Answer([jsonrpc |-> "2.0", id |-> request_id,
                          result |-> [tools |-> tools_list(d)]], NoCall, ac, sc, <<>>)
             ELSE IF StrEq(method, "tools/call")
             THEN tools_call(d, params, request_id, t, traced, ac, sc)
             ELSE IF StrEq(method, "initialize")
             THEN Answer([jsonrpc |-> "2.0", id |-> request_id,
                          result |-> initialize_result], NoCall, ac, sc, <<>>)
             ELSE method_not_found(method, request_id, ac, sc)

\* ------------------------------------------------------- the requests posted
\* the values str(uuid.uuid4()) can take
Uuids == {"uuid-1", "uuid-2"}

\* the values the default of line 821 can take for a body: the draw shows
\* only where the handler reaches line 821 and the body has no id
UuidDraws(body) ==
    IF body.kind = "json" /\ body.data.t = "map" /\ ~HasKey(body.data, "id")
    THEN Uuids
    ELSE {"uuid-1"}

\* the ways of giving a dict the member key: not at all, or with one of vals
Opt(key, vals) == {{}} \cup {{<<key, x>>} : x \in vals}

RegisteredNames == {"get_complete_kali_arsenal_info", "get_kali_tool_category",
                    "run_kali_security_scan", "get_bleeding_edge_status",
                    "generate_kali_security_report"}

\* argument values a client sends for one parameter
ArgScalars == {J_str("Information Gathering"), J_str("web"), J_str(""),
               J_int("5"), J_list("['x']")}

\* the parameters the schema of a tool names
ArgKeys(name) ==
    CASE name = "get_kali_tool_category"        -> {"category_name"}
      [] name = "run_kali_security_scan"        -> {"target", "scan_type"}
      [] name = "generate_kali_security_report" -> {"report_type"}
      [] OTHER                                  -> {}

\* values of params.arguments sent with a tool name: mappings with no or one
\* parameter, one scan with both parameters, and values that are no mapping
ArgumentsValues(name) ==
    {J_map({})} \cup {J_map({<<k, x>>}) : k \in ArgKeys(name), x \in ArgScalars}
    \cup (IF name = "run_kali_security_scan"
          THEN {J_map({<<"target", J_str("")>>, <<"scan_type", J_str("web")>>}),
                J_map({<<"target", J_list("['x']")>>, <<"scan_type", J_int("5")>>})}
          ELSE {})
    \cup {J_null, J_list("[]")}

\* values of params.name that are no registered name
OtherNames == {J_str("nonexistent_tool"), J_int("5"), J_list("['x']")}

\* values of params of a tools/call request
CallParams ==
    UNION {{J_map(a \cup b) : a \in {{<<"name", J_str(n)>>}},
                              b \in Opt("arguments", ArgumentsValues(n))}
           : n \in RegisteredNames}
    \cup {J_map(a \cup b) : a \in Opt("name", OtherNames),
                            b \in Opt("arguments", {J_map({}), J_null})}
    \cup {J_null, J_list("[]")}

Ids == {J_str("abc"), J_int("7")}

OtherMethods == {J_str("tools/list"), J_str("initialize"), J_str("foo/bar"), J_int("5")}

\* the JSON objects posted
Objects ==
    {J_map(a \cup b \cup c) : a \in {{<<"method", J_str("tools/call")>>}},
                              b \in Opt("params", CallParams), c \in Opt("id", Ids)}
    \cup {J_map(a \cup b \cup c) : a \in Opt("method", OtherMethods),
                                   b \in Opt("params", {J_null}),
                                   c \in Opt("id", Ids)}

\* the bodies posted: undecodable bytes, JSON that is no object, JSON objects
Bodies ==
    {[kind |-> "undecodable"]}
    \cup {[kind |-> "json", data |-> x] : x \in {J_null, J_list("[]"), J_str("abc"), J_int("5")}}
    \cup {[kind |-> "json", data |-> x] : x \in Objects}

\* ------------------------------------------------------- GET /mcp/sse
\* await asyncio.sleep(30) (line 795)
HEARTBEAT_INTERVAL == 30

\* the connections a client can open
SessionIds == {"s1", "s2"}

\* self.server_state["capabilities"] (line 771), which no code assigns again
server_state_capabilities == SERVER_INFO.capabilities

\* the event of line 789
initialize_event ==
    [jsonrpc |-> "2.0", method |-> "initialize",
     params |-> [protocolVersion |-> MCP_VERSION,
                 capabilities |-> server_state_capabilities,
                 serverInfo |-> SERVER_INFO]]

\* mutant: the timestamp is taken once, outside the loop
heartbeat_event_stale(t) ==
    [jsonrpc |-> "2.0", method |-> "heartbeat", params |-> [timestamp |-> 0]]

\* the event of line 794 at clock value t (the instant isoformat() prints)
heartbeat_event(t) ==
    [jsonrpc |-> "2.0", method |-> "heartbeat", params |-> [timestamp |-> t]]

\* no connection
NoSession ==
    [state |-> "NONE", pc |-> "none", events |-> <<>>, wake |-> 0, opened |-> 0, log |-> <<>>,
     raised |-> "none"]

\* mcp_sse_transport at clock value t: the StreamingResponse holds a new
\* event_stream generator that has not run yet
mcp_sse_transport(t) ==
    [state |-> "CONNECTING", pc |-> "created", events |-> <<>>, wake |-> 0, opened |-> t,
     log |-> <<>>, raised |-> "none"]

Open(sess) == sess.state \in {"CONNECTING", "ACTIVE"}

\* the generator can be resumed at clock value t: it has not finished and
\* is not suspended in a sleep that has not elapsed
Runnable(sess, t) ==
    \/ sess.pc \in {"created", "yield_init", "yield_hb"}
    \/ sess.pc = "sleep" /\ t >= sess.wake

\* mutant: the loop does not wait between two heartbeats
event_stream_no_wait(sess, t) ==
    CASE sess.pc = "created" ->
            [sess EXCEPT !.state = "ACTIVE", !.pc = "yield_init",
                         !.events = Append(@, initialize_event)]
      [] sess.pc = "yield_init" ->
            [sess EXCEPT !.pc = "yield_hb", !.events = Append(@, heartbeat_event(t))]
      [] sess.pc = "yield_hb" ->
            [sess EXCEPT !.pc = "sleep", !.wake = t]
      [] sess.pc = "sleep" ->
            [sess EXCEPT !.pc = "yield_hb", !.events = Append(@, heartbeat_event(t))]
      [] OTHER -> sess

\* mutant: the loop waits before its heartbeat, not after it
event_stream_wait_first(sess, t) ==
    CASE sess.pc = "created" ->
            [sess EXCEPT !.state = "ACTIVE", !.pc = "yield_init",
                         !.events = Append(@, initialize_event)]
      [] sess.pc = "yield_init" ->
            [sess EXCEPT !.pc = "sleep", !.wake = t + HEARTBEAT_INTERVAL]
      [] sess.pc = "yield_hb" ->
            [sess EXCEPT !.pc = "sleep", !.wake = t + HEARTBEAT_INTERVAL]
      [] sess.pc = "sleep" ->
            [sess EXCEPT !.pc = "yield_hb", !.events = Append(@, heartbeat_event(t))]
      [] OTHER -> sess

\* mutant: the loop yields its heartbeat before the initialize event
event_stream_heartbeat_first(sess, t) ==
    CASE sess.pc = "created" ->
            [sess EXCEPT !.state = "ACTIVE", !.pc = "yield_init",
                         !.events = Append(@, heartbeat_event(t))]
      [] sess.pc = "yield_init" ->
            [sess EXCEPT !.pc = "yield_hb", !.events = Append(@, initialize_event)]
      [] sess.pc = "yield_hb" ->
            [sess EXCEPT !.pc = "sleep", !.wake = t + HEARTBEAT_INTERVAL]
      [] sess.pc = "sleep" ->
            [sess EXCEPT !.pc = "yield_hb", !.events = Append(@, heartbeat_event(t))]
      [] OTHER -> sess

\* event_stream run from one suspension to the next at clock value t:
\* the yield of line 789, the yield of line 794, the sleep of line 795
event_stream(sess, t) ==
    CASE sess.pc = "created" ->
            [sess EXCEPT !.state = "ACTIVE", !.pc = "yield_init",
                         !.events = Append(@, initialize_event)]
      [] sess.pc = "yield_init" ->
            [sess EXCEPT !.pc = "yield_hb", !.events = Append(@, heartbeat_event(t))]
      [] sess.pc = "yield_hb" ->
            [sess EXCEPT !.pc = "sleep", !.wake = t + HEARTBEAT_INTERVAL]
      [] sess.pc = "sleep" ->
            [sess EXCEPT !.pc = "yield_hb", !.events = Append(@, heartbeat_event(t))]
      [] OTHER -> sess

\* mutant: the except clause logs and the loop goes on
event_stream_cancel_loop_goes_on(sess) ==
    [sess EXCEPT !.state = "CLOSED",
                 !.log = IF sess.pc = "sleep" THEN <<"SSE connection closed">> ELSE <<>>]

\* the end of a session (client disconnect, transport error, cancellation):
\* a generator suspended in the sleep gets CancelledError, which the clause
\* of line 797 logs and swallows; one suspended at a yield, or not started,
\* is closed without running either except clause; in each case the
\* generator finishes and nothing is raised out of it
event_stream_cancel(sess) ==
    [sess EXCEPT !.state = "CLOSED", !.pc = "done", !.raised = "none",
                 !.log = IF sess.pc = "sleep" THEN <<"SSE connection closed">> ELSE <<>>]

\* mutant: the generator is shared, the end of one session ends them all
close_session_all(ss, s) == [u \in DOMAIN ss |-> event_stream_cancel(ss[u])]

\* the sessions after session s ended
close_session(ss, s) == [ss EXCEPT ![s] = event_stream_cancel(ss[s])]

\* ------------------------------------------------------- GET /health
NoHealth == [status |-> 0]

\* mutant: mcp_tools counts server_state["resources"]
health_check_counts_resources(d, t) ==
    [status |-> 200,
     body |-> [status |-> "healthy",
               server |-> SERVER_INFO.name,
               version |-> SERVER_INFO.version,
               platform |-> PLATFORM_TYPE,
               total_tools |-> get_total_tool_count + BLEEDING_EDGE_CONFIG.additional_tools_count,
               mcp_tools |-> 0,
               bleeding_edge |-> BLEEDING_EDGE_CONFIG.enabled,
               timestamp |-> t]]

\* mutant: the answer leaves out the timestamp
health_check_without_timestamp(d, t) ==
    [status |-> 200,
     body |-> [status |-> "healthy",
               server |-> SERVER_INFO.name,
               version |-> SERVER_INFO.version,
               platform |-> PLATFORM_TYPE,
               total_tools |-> get_total_tool_count + BLEEDING_EDGE_CONFIG.additional_tools_count,
               mcp_tools |-> Len(d),
               bleeding_edge |-> BLEEDING_EDGE_CONFIG.enabled]]

\* health_check at clock value t
health_check(d, t) ==
    [status |-> 200,
     body |-> [status |-> "healthy",
               server |-> SERVER_INFO.name,
               version |-> SERVER_INFO.version,
               platform |-> PLATFORM_TYPE,
               total_tools |-> get_total_tool_count + BLEEDING_EDGE_CONFIG.additional_tools_count,
               mcp_tools |-> Len(d),
               bleeding_edge |-> BLEEDING_EDGE_CONFIG.enabled,
               timestamp |-> t]]

\* ------------------------------------------------------- Gradio interface
NoClick == [fn |-> "none"]

\* str(e) of the TypeError of a call that leaves out a required parameter
MissingArgumentError(fn, param) ==
    fn \o "() missing 1 required positional argument: '" \o param \o "'"

\* mutant: the scan button passes its inputs as [scan_type, scan_target]
gradio_click_swapped(fn, inputs, t, traced, ac, sc) ==
    CASE fn = "get_complete_kali_arsenal_info" ->
            LET r == get_complete_kali_arsenal_info(ac)
            IN  [out |-> r.out, arsenal_cache |-> r.cache, status_cache |-> sc, spans |-> <<>>]
      [] fn = "get_kali_tool_category" ->
            [out |-> get_kali_tool_category(inputs[1]),
             arsenal_cache |-> ac, status_cache |-> sc, spans |-> <<>>]
      [] fn = "run_kali_security_scan" ->
            LET r == run_kali_security_scan(inputs[2], inputs[1], t, traced)
            IN  [out |-> r.out, arsenal_cache |-> ac, status_cache |-> sc, spans |-> r.spans]
      [] fn = "get_bleeding_edge_status" ->
            LET r == get_bleeding_edge_status(sc, t)
            IN  [out |-> r.out, arsenal_cache |-> ac, status_cache |-> r.cache, spans |-> <<>>]
      [] fn = "generate_kali_security_report" ->
            [out |-> generate_kali_security_report(inputs[1], t),
             arsenal_cache |-> ac, status_cache |-> sc, spans |-> <<>>]

\* the function a button is bound to (lines 1120, 1121, 1153, 1154, 1169),
\* called with the values of its input components at clock value t:
\* [out, arsenal_cache, status_cache, spans]
gradio_click(fn, inputs, t, traced, ac, sc) ==
    CASE fn = "get_complete_kali_arsenal_info" ->
            LET r == get_complete_kali_arsenal_info(ac)
            IN  [out |-> r.out, arsenal_cache |-> r.cache, status_cache |-> sc, spans |-> <<>>]
      [] fn = "get_kali_tool_category" ->
            [out |-> get_kali_tool_category(inputs[1]),
             arsenal_cache |-> ac, status_cache |-> sc, spans |-> <<>>]
      [] fn = "run_kali_security_scan" ->
            LET r == run_kali_security_scan(inputs[1], inputs[2], t, traced)
            IN  [out |-> r.out, arsenal_cache |-> ac, status_cache |-> sc, spans |-> r.spans]
      [] fn = "get_bleeding_edge_status" ->
            LET r == get_bleeding_edge_status(sc, t)
            IN  [out |-> r.out, arsenal_cache |-> ac, status_cache |-> r.cache, spans |-> <<>>]
      [] fn = "generate_kali_security_report" ->
            [out |-> generate_kali_security_report(inputs[1], t),
             arsenal_cache |-> ac, status_cache |-> sc, spans |-> <<>>]

\* the parameters of a tool function bound from a mapping of arguments by
\* its signature (lines 306, 370, 405, 537, 583): a parameter without a
\* default that the mapping leaves out is a TypeError, scan_type and
\* report_type have the defaults of the signature
bind_arguments(fn, arguments) ==
    CASE fn = "get_kali_tool_category" ->
            IF HasKey(arguments, "category_name")
            THEN [ok |-> TRUE, val |-> <<Get(arguments, "category_name", J_null)>>, exc |-> ""]
            ELSE [ok |-> FALSE, val |-> <<>>,
                  exc |-> MissingArgumentError(fn, "category_name")]
      [] fn = "run_kali_security_scan" ->
            IF HasKey(arguments, "target")
            THEN [ok |-> TRUE,
                  val |-> <<Get(arguments, "target", J_null),
                            Get(arguments, "scan_type", J_str("reconnaissance"))>>,
                  exc |-> ""]
            ELSE [ok |-> FALSE, val |-> <<>>, exc |-> MissingArgumentError(fn, "target")]
      [] fn = "generate_kali_security_report" ->
            [ok |-> TRUE, val |-> <<Get(arguments, "report_type", J_str("comprehensive"))>>,
             exc |-> ""]
      [] OTHER -> [ok |-> TRUE, val |-> <<>>, exc |-> ""]

\* the tool function called directly with a mapping of arguments
direct_call(fn, arguments, t, traced, ac, sc) ==
    LET b == bind_arguments(fn, arguments)
    IN  IF b.ok
        THEN gradio_click(fn, b.val, t, traced, ac, sc)
        ELSE [out |-> Raise(b.exc), arsenal_cache |-> ac, status_cache |-> sc, spans |-> <<>>]

\* the values the input components of a button hold: the choices of the
\* dropdowns (lines 1112, 1135, 1144) and the text of the target box (line 1133)
ClickInputs(fn) ==
    CASE fn = "get_kali_tool_category" ->
            {<<J_str(c)>> : c \in {"Information Gathering", "Web Applications"}}
      [] fn = "run_kali_security_scan" ->
            {<<J_str(tg), J_str(st)>> : tg \in {"example.com", ""},
                                        st \in {"reconnaissance", "wireless"}}
      [] fn = "generate_kali_security_report" ->
            {<<J_str(rt)>> : rt \in {"comprehensive", "executive"}}
      [] OTHER -> {<<>>}

\* ------------------------------------------------------- registration
NoRegistration == [name |-> "none"]

\* ------------------------------------------------------- specification
NoRequest == [kind |-> "none"]
NoResponse == [status |-> 0]

Init ==
    /\ tools = register_mcp_tools(<<>>)
    /\ tracing \in BOOLEAN
    /\ now = 0
    /\ arsenal_cache = EmptyCache
    /\ status_cache = EmptyCache
    /\ request = NoRequest
    /\ response = NoResponse
    /\ call = NoCall
    /\ spans = <<>>
    /\ sessions = [s \in SessionIds |-> NoSession]
    /\ health = NoHealth
    /\ ui = NoClick
    /\ registration = NoRegistration

\* one POST /mcp/sse, from the arrival of the body to the returned response
PostBody(body) ==
    \E uuid \in UuidDraws(body) :
        \E r \in {handle_mcp_request(tools, body, uuid, now, tracing,
                                    arsenal_cache, status_cache)} :
            /\ request' = body
            /\ response' = [status |-> r.status, body |-> r.body]
            /\ call' = r.call
            /\ arsenal_cache' = r.arsenal_cache
            /\ status_cache' = r.status_cache
            /\ spans' = r.spans
            /\ UNCHANGED <<tools, tracing, now, sessions, health, ui, registration>>

Post == \E body \in Bodies : PostBody(body)

\* the wall clock advances
Tick ==
    /\ now < MaxTime
    /\ now' = now + 1
    /\ UNCHANGED <<tools, tracing, arsenal_cache, status_cache, request, response, call, spans,
                   sessions, health, ui, registration>>

Next == Post \/ Tick

Spec == Init /\ [][Next]_vars

\* ------------------------------------------------------- the whole server
\* the requests posted while sessions are open: one per branch of the handler
ServerBodies ==
    { [kind |-> "undecodable"],
      [kind |-> "json", data |-> J_map({<<"method", J_str("initialize")>>, <<"id", J_int("7")>>})],
      [kind |-> "json", data |-> J_map({<<"method", J_str("tools/list")>>, <<"id", J_int("7")>>})],
      [kind |-> "json", data |-> J_map({<<"method", J_str("foo/bar")>>, <<"id", J_int("7")>>})],
      [kind |-> "json", data |-> J_map({<<"method", J_str("tools/call")>>, <<"id", J_int("7")>>,
                                        <<"params", J_null>>})],
      [kind |-> "json", data |-> J_map({<<"method", J_str("tools/call")>>, <<"id", J_int("7")>>,
            <<"params", J_map({<<"name", J_str("nmap")>>})>>})],
      [kind |-> "json", data |-> J_map({<<"method", J_str("tools/call")>>, <<"id", J_int("7")>>,
            <<"params", J_map({<<"name", J_str("get_bleeding_edge_status")>>})>>})] }

PostServer == \E body \in ServerBodies : PostBody(body)

\* mutant: the health check empties the registry
Health_clears_registry ==
    /\ health' = health_check(tools, now)
    /\ tools' = <<>>
    /\ UNCHANGED <<tracing, now, arsenal_cache, status_cache, request, response, call,
                   spans, sessions, ui, registration>>

\* GET /health
Health ==
    /\ health' = health_check(tools, now)
    /\ UNCHANGED <<tools, tracing, now, arsenal_cache, status_cache, request, response, call,
                   spans, sessions, ui, registration>>

\* GET /mcp/sse: a client opens session s
Connect(s) ==
    /\ sessions[s].state = "NONE"
    /\ sessions' = [sessions EXCEPT ![s] = mcp_sse_transport(now)]
    /\ UNCHANGED <<tools, tracing, now, arsenal_cache, status_cache, request, response, call,
                   spans, health, ui, registration>>

\* the event loop resumes the generator of session s
Resume(s) ==
    /\ Runnable(sessions[s], now)
    /\ sessions' = [sessions EXCEPT ![s] = event_stream(sessions[s], now)]
    /\ UNCHANGED <<tools, tracing, now, arsenal_cache, status_cache, request, response, call,
                   spans, health, ui, registration>>

\* session s is cancelled, disconnected or fails
Cancel(s) ==
    /\ Open(sessions[s])
    /\ sessions' = close_session(sessions, s)
    /\ UNCHANGED <<tools, tracing, now, arsenal_cache, status_cache, request, response, call,
                   spans, health, ui, registration>>

\* the clock advances while no generator is ready to run
Elapse(bound) ==
    /\ now < bound
    /\ \A s \in SessionIds : ~Runnable(sessions[s], now)
    /\ now' = now + 1
    /\ UNCHANGED <<tools, tracing, arsenal_cache, status_cache, request, response, call, spans,
                   sessions, health, ui, registration>>

ElapseServer == Elapse(MaxTime)

NextServer ==
    \/ PostServer
    \/ Health
    \/ \E s \in SessionIds : Connect(s)
    \/ \E s \in SessionIds : Resume(s)
    \/ \E s \in SessionIds : Cancel(s)
    \/ ElapseServer

SpecServer == Init /\ [][NextServer]_vars

\* ------------------------------------------------------- the heartbeat timing
ElapseStream == Elapse(MaxClock)

NextStream ==
    \/ \E s \in SessionIds : Connect(s)
    \/ \E s \in SessionIds : Resume(s)
    \/ \E s \in SessionIds : Cancel(s)
    \/ ElapseStream

SpecStream == Init /\ [][NextStream]_vars

\* ------------------------------------------------------- the two interfaces
\* the parameters of a tool function in the order of its signature
ParamNames(fn) ==
    CASE fn = "get_kali_tool_category"        -> <<"category_name">>
      [] fn = "run_kali_security_scan"        -> <<"target", "scan_type">>
      [] fn = "generate_kali_security_report" -> <<"report_type">>
      [] OTHER                                -> <<>>

\* arguments no button can pass: values of the wrong type and a scan
\* without a target
OddArguments(fn) ==
    CASE fn = "get_kali_tool_category" ->
            {J_map({<<"category_name", J_list("['x']")>>})}
      [] fn = "run_kali_security_scan" ->
            {J_map({<<"target", J_list("['x']")>>, <<"scan_type", J_int("5")>>}),
             J_map({<<"scan_type", J_str("web")>>})}
      [] fn = "generate_kali_security_report" ->
            {J_map({<<"report_type", J_int("5")>>})}
      [] OTHER -> {J_null}

\* the tools/call requests a client posts while the interface is in use:
\* each tool with no arguments, with the values a button can pass and with
\* arguments no button can pass
UnifiedBodies ==
    UNION {{[kind |-> "json",
             data |-> J_map({<<"method", J_str("tools/call")>>, <<"id", J_int("7")>>,
                             <<"params", J_map({<<"name", J_str(fn)>>, <<"arguments", a>>})>>})]
            : a \in {J_map({})} \cup OddArguments(fn) \cup
                     {J_map({<<ParamNames(fn)[i], inputs[i]>> : i \in DOMAIN inputs})
                      : inputs \in ClickInputs(fn)}}
           : fn \in RegisteredNames}

PostUnified == \E body \in UnifiedBodies : PostBody(body)

\* a click of the button bound to fn
Click(fn, inputs) ==
    \E r \in {gradio_click(fn, inputs, now, tracing, arsenal_cache, status_cache)} :
        /\ ui' = [fn |-> fn, inputs |-> inputs, at |-> now, out |-> r.out, spans |-> r.spans]
        /\ arsenal_cache' = r.arsenal_cache
        /\ status_cache' = r.status_cache
        /\ UNCHANGED <<tools, tracing, now, request, response, call, spans, sessions, health,
                       registration>>

NextUnified ==
    \/ PostUnified
    \/ \E fn \in RegisteredNames : \E inputs \in ClickInputs(fn) : Click(fn, inputs)
    \/ Tick

SpecUnified == Init /\ [][NextUnified]_vars

\* ------------------------------------------------------- the assignments of _register_mcp_tools
\* the names and the descriptors assigned
RegisterNames ==
    {"get_complete_kali_arsenal_info", "get_kali_tool_category", "run_kali_security_scan"}

RegisterDetails ==
    { Details("Get complete information about DarkDriftz's bleeding edge Kali Linux arsenal",
              NoProperties, <<>>),
      Details("Get detailed information about a specific Kali Linux tool category",
              [category_name |-> StringProperty("Name of the tool category")],
              <<"category_name">>) }

\* self.server_state["tools"][name] = details: the mapping after it and
\* the exception it raises
register_tool(d, name, details) == [tools |-> DictSet(d, name, details), raised |-> "none"]

\* the state of line 773: server_state["tools"] is the empty mapping
InitRegister ==
    /\ tools = <<>>
    /\ tracing \in BOOLEAN
    /\ now = 0
    /\ arsenal_cache = EmptyCache
    /\ status_cache = EmptyCache
    /\ request = NoRequest
    /\ response = NoResponse
    /\ call = NoCall
    /\ spans = <<>>
    /\ sessions = [s \in SessionIds |-> NoSession]
    /\ health = NoHealth
    /\ ui = NoClick
    /\ registration = NoRegistration

\* one assignment of a descriptor under a name
Register(name, details) ==
    \E r \in {register_tool(tools, name, details)} :
        /\ tools' = r.tools
        /\ registration' = [name |-> name, details |-> details, raised |-> r.raised]
        /\ UNCHANGED <<tracing, now, arsenal_cache, status_cache, request, response, call,
                       spans, sessions, health, ui>>

NextRegister == \E name \in RegisterNames : \E details \in RegisterDetails : Register(name, details)

SpecRegister == InitRegister /\ [][NextRegister]_vars

TypeOK ==
    /\ tracing \in BOOLEAN
    /\ now \in 0..MaxTime
    /\ response.status \in {0, 200, 500}

\* ------------------------------------------------------- reading the last exchange
Posted == request.kind # "none"

\* the body decoded to a JSON object
IsObject == request.kind = "json" /\ request.data.t = "map"

ReqHas(k) == IsObject /\ HasKey(request.data, k)

ReqMethod == Get(request.data, "method", J_str(""))
ReqParams == Get(request.data, "params", J_map({}))

IsCall == IsObject /\ StrEq(ReqMethod, "tools/call")

\* a tools/call whose params are a mapping: its name and arguments
IsNamedCall == IsCall /\ ReqParams.t = "map"
ReqName == Get(ReqParams, "name", J_str(""))
ReqArguments == Get(ReqParams, "arguments", J_map({}))

IsRegistered(name) == name.t = "str" /\ name.v \in {tools[i][1] : i \in DOMAIN tools}

HasResult == "result" \in DOMAIN response.body
HasError == "error" \in DOMAIN response.body

\* the text of a tools/call result
ResultText == response.body.result.content[1].text

\* ------------------------------------------------------- claims

\* C1: every request that carries an id is answered with exactly that id,
\* whether the outcome is a result or an error (-32601 and -32603 included).
C1_IdEchoed ==
    ReqHas("id") => response.body.id = Get(request.data, "id", J_null)

\* C2: when the tool function (or the reading of its arguments) raises
\* during tools/call, the answer is HTTP 200 with a result whose text is the
\* diagnostic "Tool execution failed: ..." and isError false, and no error.
C2_HandlerFailureIsResult ==
    call.caught =>
        /\ response.status = 200
        /\ HasResult /\ ~HasError
        /\ response.body.result.isError = FALSE
        /\ Len(ResultText) = 2
        /\ ResultText[1] = "Tool execution failed: "

\* a registered tool function raised and the call was answered
C2_Witness ==
    /\ IsNamedCall /\ IsRegistered(ReqName)
    /\ call.caught /\ call.invoked = "get_kali_tool_category"
    /\ response.status = 200

C4_UnknownMethodIsError ==
    (IsObject /\ ~(\E m \in {"initialize", "tools/list", "tools/call"} : StrEq(ReqMethod, m))) =>
        /\ response.status = 200
        /\ HasError /\ ~HasResult
        /\ response.body.error.code = -32601

C4_Witness ==
    /\ IsObject /\ ReqMethod = J_str("foo/bar")
    /\ response.status = 200 /\ HasError

\* C5: a body that cannot be decoded is answered with HTTP 500, the error
\* -32603 and a message starting with "Internal error:"; a response is
\* returned for every body, the handler does not raise.
C5_UndecodableIsInternalError ==
    /\ Posted => response.status \in {200, 500}
    /\ request.kind = "undecodable" =>
        /\ response.status = 500
        /\ HasError /\ ~HasResult
        /\ response.body.error.code = -32603
        /\ response.body.error.message[1] = "Internal error: "

C5_Witness == request.kind = "undecodable" /\ response.status = 500

\* C6 as claimed: a decoded object without a method member is answered with
\* the error -32603 and HTTP 500.
C6_MissingMethodIsInternalError ==
    (IsObject /\ ~HasKey(request.data, "method")) =>
        /\ response.status = 500
        /\ HasError /\ response.body.error.code = -32603

\* C6 amended: a decoded object without a method member is answered as an
\* unknown method with an empty name: error -32601, message
\* "Method not found: ", HTTP 200.
C6_MissingMethodIsNotFound ==
    (IsObject /\ ~HasKey(request.data, "method")) =>
        /\ response.status = 200
        /\ HasError /\ ~HasResult
        /\ response.body.error.code = -32601
        /\ response.body.error.message = <<"Method not found: ", "">>

C6_Witness ==
    /\ IsObject /\ ~HasKey(request.data, "method") /\ HasKey(request.data, "id")
    /\ response.status = 200

\* C7: every request that is a JSON object with a method member is answered
\* with HTTP 200, whatever its params.
C7_ParsedIsStatus200 ==
    ReqHas("method") => response.status = 200

\* C8 as claimed: a request without an id member gets no response body.
C8_NotificationNoBody ==
    (IsObject /\ ~HasKey(request.data, "id")) => "body" \notin DOMAIN response

\* C8 amended: a request without an id member is answered like any other;
\* the id of the response is the string of a fresh UUID, or "error" on the
\* -32603 path.
C8_NoIdIsAnswered ==
    (IsObject /\ ~HasKey(request.data, "id")) =>
        /\ "body" \in DOMAIN response
        /\ response.status = 200 => response.body.id \in {J_str(u) : u \in Uuids}
        /\ response.status = 500 => response.body.id = J_str("error")
        /\ HasResult \/ HasError

C8_Witness ==
    /\ IsObject /\ ~HasKey(request.data, "id")
    /\ StrEq(ReqMethod, "tools/list")
    /\ response.status = 200 /\ response.body.id = J_str("uuid-2")

\* C9: every response holds exactly one of the members result and error.
C9_ResultXorError ==
    Posted => (HasResult /\ ~HasError) \/ (HasError /\ ~HasResult)

C9_Witness ==
    /\ IsNamedCall /\ IsRegistered(ReqName) /\ response.status = 500
    /\ HasError /\ ~HasResult

\* C10: tools/list holds exactly one descriptor for every registered name, in
\* registration order, and tools/call with a registered name runs the
\* function of that name, never another one and never the "Unknown tool"
\* fallback.
C10_RegistryLookup ==
    /\ (IsObject /\ StrEq(ReqMethod, "tools/list")) =>
        LET listed == response.body.result.tools
        IN  /\ \A i \in DOMAIN tools :
                    Cardinality({j \in DOMAIN listed : listed[j].name = tools[i][1]}) = 1
            /\ [j \in DOMAIN listed |-> listed[j].name]
                 = <<"get_complete_kali_arsenal_info", "get_kali_tool_category",
                     "run_kali_security_scan", "get_bleeding_edge_status",
                     "generate_kali_security_report">>
    /\ (IsNamedCall /\ IsRegistered(ReqName)) =>
        /\ call.invoked \in {ReqName.v, "none"}
        /\ (ReqArguments.t = "map" /\ response.status = 200) => call.invoked = ReqName.v
        /\ response.status = 200 => ResultText[1] # "Unknown tool: "

C10_Witness ==
    /\ IsNamedCall /\ ReqName = J_str("generate_kali_security_report")
    /\ call.invoked = "generate_kali_security_report" /\ ~call.caught
    /\ response.status = 200

\* ------------------------------------------------------- reading the sessions and the health answer
IsInitialize == IsObject /\ StrEq(ReqMethod, "initialize")

\* the last POST exchange is replaced in this step
Exchanged == request' # request \/ response' # response \/ call' # call \/ spans' # spans

\* the events of session s with the given method
EventsOf(s, m) == {i \in DOMAIN sessions[s].events : sessions[s].events[i].method = m}

Heartbeats(s) == EventsOf(s, "heartbeat")

HealthAsked == health.status # 0

\* C11: every answer to initialize carries the same protocolVersion,
\* capabilities and serverInfo, whatever was posted, asked or streamed before,
\* the same three values as the initialize event of every session, and
\* answering it changes neither the registry, the caches, the sessions, the
\* health answer nor the clock
C11_InitializeIdempotent ==
    /\ [](IsInitialize =>
            /\ response.status = 200
            /\ response.body.result = [protocolVersion |-> MCP_VERSION,
                                       capabilities |-> SERVER_INFO.capabilities,
                                       serverInfo |-> SERVER_INFO]
            /\ \A s \in SessionIds : \A i \in EventsOf(s, "initialize") :
                    sessions[s].events[i].params = response.body.result)
    /\ [][(IsInitialize' /\ Exchanged) =>
            UNCHANGED <<tools, tracing, now, arsenal_cache, status_cache, sessions, health>>]_vars

C11_Witness ==
    /\ IsInitialize /\ response.status = 200
    /\ status_cache # EmptyCache
    /\ HealthAsked
    /\ \E s \in SessionIds : EventsOf(s, "initialize") # {}

\* C12: the first event of every session is the initialize event and every
\* later event of the session is a heartbeat
C12_InitializeFirstAndOnce ==
    \A s \in SessionIds :
        LET ev == sessions[s].events
        IN  ev # <<>> =>
                /\ ev[1].method = "initialize"
                /\ EventsOf(s, "initialize") = {1}
                /\ \A i \in Heartbeats(s) : i > 1

C12_Witness ==
    \E s \in SessionIds : Len(sessions[s].events) >= 3

\* C13: an open session has emitted its first heartbeat as soon as any time
\* has passed since it was opened, so after 30 time units too, and one more
\* for every 30 time units that have passed, and the timestamps of its
\* heartbeats increase in emission order
C13_HeartbeatsKeepComing ==
    \A s \in SessionIds :
        LET ev == sessions[s].events
        IN  /\ Open(sessions[s]) =>
                \A k \in 0..MaxClock :
                    now > sessions[s].opened + k * HEARTBEAT_INTERVAL =>
                        Cardinality(Heartbeats(s)) >= k + 1
            /\ \A i, j \in Heartbeats(s) :
                    i < j => ev[i].params.timestamp < ev[j].params.timestamp

C13_Witness ==
    \E s \in SessionIds :
        /\ Open(sessions[s])
        /\ now >= sessions[s].opened + HEARTBEAT_INTERVAL + 1
        /\ Cardinality(Heartbeats(s)) >= 2

\* C14: a session that was cancelled, disconnected or failed is CLOSED and
\* stays as it is: its generator has finished, it emits nothing more, and
\* nothing was raised out of it
C14_ClosedForGood ==
    /\ [](\A s \in SessionIds :
            sessions[s].state = "CLOSED" =>
                /\ sessions[s].pc = "done"
                /\ ~Runnable(sessions[s], now)
                /\ sessions[s].raised = "none")
    /\ [][\A s \in SessionIds :
            sessions[s].state = "CLOSED" => sessions'[s] = sessions[s]]_vars

C14_Witness ==
    /\ \E s \in SessionIds :
        /\ sessions[s].state = "CLOSED"
        /\ sessions[s].log # <<>>
        /\ now > sessions[s].wake
    /\ \E s \in SessionIds :
        /\ sessions[s].state = "CLOSED"
        /\ sessions[s].log = <<>>
        /\ Len(sessions[s].events) = 1

\* C15: no step changes the registry, a step changes at most one session,
\* a POST exchange changes no session whatever its outcome, and a session
\* that is open has a generator that has not finished
C15_SessionsIsolated ==
    /\ [](\A s \in SessionIds : Open(sessions[s]) => sessions[s].pc # "done")
    /\ [][/\ tools' = tools
           /\ \A s, u \in SessionIds :
                (s # u /\ sessions'[s] # sessions[s]) => (sessions'[u] = sessions[u])
           /\ (Exchanged => (sessions' = sessions))]_vars

C15_Witness ==
    /\ response.status = 500
    /\ \E s, u \in SessionIds :
        /\ sessions[s].state = "CLOSED"
        /\ sessions[u].state = "ACTIVE"
        /\ Heartbeats(u) # {}

IsList == IsObject /\ StrEq(ReqMethod, "tools/list")

RegistryNames == {tools[i][1] : i \in DOMAIN tools}

\* C16 as stated: total_tools of a health answer is the number of tools in
\* the registry, and it never decreases from one answer to the next
C16_TotalToolsIsRegistryCount ==
    /\ [](HealthAsked => health.body.total_tools = Len(tools))
    /\ [][(HealthAsked /\ HealthAsked') =>
            health'.body.total_tools >= health.body.total_tools]_vars

\* C16: mcp_tools of a health answer is the number of tools in the registry,
\* total_tools is the arsenal figure get_total_tool_count() plus
\* additional_tools_count, which is not the number of registered tools, and
\* neither of the two decreases from one answer to the next
C16_McpToolsIsRegistryCount ==
    /\ [](HealthAsked =>
            /\ health.body.mcp_tools = Len(tools)
            /\ health.body.mcp_tools = Cardinality(RegistryNames)
            /\ health.body.total_tools =
                    get_total_tool_count + BLEEDING_EDGE_CONFIG.additional_tools_count
            /\ health.body.total_tools # Len(tools))
    /\ [][(HealthAsked /\ HealthAsked') =>
            /\ health'.body.total_tools >= health.body.total_tools
            /\ health'.body.mcp_tools >= health.body.mcp_tools]_vars

C16_Witness ==
    /\ HealthAsked
    /\ health.body.timestamp > 0
    /\ call.invoked # "none"

\* C17: no step changes the registry, so it is the one built at startup,
\* every answer to tools/list lists the tools of that registry and every
\* health answer reports the same mcp_tools as the one before
C17_RegistryReadOnly ==
    /\ [][tools' = tools]_vars
    /\ [](tools = register_mcp_tools(<<>>))
    /\ [](IsList =>
            /\ response.status = 200
            /\ response.body.result.tools = tools_list(register_mcp_tools(<<>>)))
    /\ [][(HealthAsked /\ HealthAsked') =>
            health'.body.mcp_tools = health.body.mcp_tools]_vars

C17_Witness ==
    /\ IsList /\ response.status = 200
    /\ HealthAsked
    /\ status_cache # EmptyCache
    /\ \E s \in SessionIds : sessions[s].state = "CLOSED"

\* C18: the registry holds the five tools get_complete_kali_arsenal_info,
\* get_kali_tool_category, run_kali_security_scan, get_bleeding_edge_status
\* and generate_kali_security_report, each once, and no other, and a health
\* answer reports mcp_tools = 5
C18_FiveTools ==
    /\ RegistryNames = {"get_complete_kali_arsenal_info", "get_kali_tool_category",
                        "run_kali_security_scan", "get_bleeding_edge_status",
                        "generate_kali_security_report"}
    /\ Len(tools) = 5
    /\ HealthAsked => health.body.mcp_tools = 5

C18_Witness ==
    /\ HealthAsked
    /\ health.body.mcp_tools = 5
    /\ Posted

\* C19 as stated: a health answer has status 200 and exactly the members
\* status, server, version, platform, total_tools, mcp_tools,
\* capability_flags and timestamp
C19_HealthHasCapabilityFlags ==
    HealthAsked =>
        /\ health.status = 200
        /\ DOMAIN health.body = {"status", "server", "version", "platform", "total_tools",
                                 "mcp_tools", "capability_flags", "timestamp"}

\* C19: a health answer has status 200 and exactly the members status,
\* server, version, platform, total_tools, mcp_tools, bleeding_edge and
\* timestamp, whatever was posted or streamed before it
C19_HealthAnswer ==
    HealthAsked =>
        /\ health.status = 200
        /\ DOMAIN health.body = {"status", "server", "version", "platform", "total_tools",
                                 "mcp_tools", "bleeding_edge", "timestamp"}
        /\ health.body.status = "healthy"
        /\ health.body.bleeding_edge = TRUE

C19_Witness ==
    /\ HealthAsked
    /\ response.status = 500
    /\ \E s \in SessionIds : sessions[s].state = "CLOSED"
    /\ \E s \in SessionIds : sessions[s].state = "ACTIVE"

\* C20: a tools/call that names a registered tool and whose params have no
\* arguments member hands the tool an empty mapping, and every tools/call
\* answered with a result carries the text the tool returned as the one
\* entry of content, of type text, with isError false
C20_ArgumentsDefaultAndWrap ==
    /\ (IsNamedCall /\ ~HasKey(ReqParams, "arguments") /\ IsRegistered(ReqName)) =>
            /\ call.invoked = ReqName.v
            /\ call.arguments = J_map({})
            /\ response.status = 200 /\ HasResult
    /\ (IsCall /\ response.status = 200 /\ HasResult) =>
            response.body.result =
                [content |-> << [type |-> "text", text |-> call.text] >>, isError |-> FALSE]

C20_Witness ==
    /\ IsNamedCall /\ ~HasKey(ReqParams, "arguments")
    /\ call.invoked = "run_kali_security_scan"
    /\ response.status = 200 /\ HasResult
    /\ Len(ResultText) > 0

\* the descriptor registered under a name
DescriptorOf(d, name) == d[CHOOSE i \in DOMAIN d : d[i][1] = name][2]

NamesOf(d) == {d[i][1] : i \in DOMAIN d}

NamesUnique(d) == \A i, j \in DOMAIN d : d[i][1] = d[j][1] => i = j

\* an assignment to the registry was made in this step
Registered == registration' # registration \/ tools' # tools

CallAnswered ==
    /\ Exchanged
    /\ IsNamedCall' /\ IsRegistered(ReqName)' /\ ReqArguments'.t = "map"
    /\ HasResult'

\* the arguments of a call with the values _execute_tool_impl takes for the
\* members a request leaves out that the signature requires
WithRequired(fn, arguments) ==
    CASE fn = "get_kali_tool_category" /\ ~HasKey(arguments, "category_name") ->
            J_map(arguments.m \cup {<<"category_name", J_str("")>>})
      [] fn = "run_kali_security_scan" /\ ~HasKey(arguments, "target") ->
            J_map(arguments.m \cup {<<"target", J_str("example.com")>>})
      [] OTHER -> arguments

C23_DescriptorShape ==
    IsList =>
        LET listed == response.body.result.tools
        IN  /\ Len(listed) = Len(tools)
            /\ \A i \in DOMAIN listed :
                LET e == listed[i]
                IN  /\ DOMAIN e = {"name", "description", "inputSchema"}
                    /\ e.name = tools[i][1]
                    /\ e.description \in STRING
                    /\ DOMAIN e.inputSchema = {"type", "properties", "required"}
                    /\ e.inputSchema.type = "object"
                    /\ \A k \in DOMAIN e.inputSchema.properties :
                        /\ k \in STRING
                        /\ e.inputSchema.properties[k].type = "string"
                    /\ e.inputSchema.required \in Seq(STRING)
                    /\ \A j \in DOMAIN e.inputSchema.required :
                            e.inputSchema.required[j] \in DOMAIN e.inputSchema.properties

C23_Witness ==
    /\ IsList /\ response.status = 200
    /\ Len(response.body.result.tools) = 5
    /\ \E i \in DOMAIN response.body.result.tools :
            response.body.result.tools[i].inputSchema.required # <<>>

\* C24: every event of a session is an initialize or a heartbeat event,
\* every event after the first is a heartbeat, and the timestamps of two
\* consecutive heartbeats are one wait of 30 time units apart
C24_OnlyHeartbeatsEvery30 ==
    \A s \in SessionIds :
        LET ev == sessions[s].events
        IN  /\ \A i \in DOMAIN ev :
                /\ ev[i].method \in {"initialize", "heartbeat"}
                /\ i > 1 => ev[i].method = "heartbeat"
            /\ \A i \in DOMAIN ev :
                (i > 1 /\ i + 1 \in DOMAIN ev) =>
                    ev[i + 1].params.timestamp = ev[i].params.timestamp + HEARTBEAT_INTERVAL

C24_Witness ==
    \E s \in SessionIds :
        /\ sessions[s].state = "ACTIVE" /\ sessions[s].pc = "sleep"
        /\ Cardinality(Heartbeats(s)) = 2
        /\ sessions[s].opened > 0

\* C30: the second event of a session is a heartbeat stamped with the time
\* the session was opened, a generator waits only with a heartbeat as its
\* last event, and a session in its first wait, or cancelled during it, has
\* emitted just one initialize event and one heartbeat
C30_FirstHeartbeatWithoutWait ==
    \A s \in SessionIds :
        LET sess == sessions[s]
            ev == sess.events
            FirstWait == sess.wake = sess.opened + HEARTBEAT_INTERVAL
            InWait == sess.pc = "sleep"
            CancelledInWait == sess.state = "CLOSED" /\ sess.log = <<"SSE connection closed">>
        IN  /\ Len(ev) >= 2 =>
                /\ ev[2].method = "heartbeat"
                /\ ev[2].params.timestamp = sess.opened
            /\ (InWait \/ CancelledInWait) => ev[Len(ev)].method = "heartbeat"
            /\ ((InWait \/ CancelledInWait) /\ FirstWait) =>
                /\ Len(ev) = 2
                /\ EventsOf(s, "initialize") = {1}
                /\ Heartbeats(s) = {2}

C30_Witness ==
    \E s \in SessionIds :
        /\ sessions[s].state = "CLOSED"
        /\ sessions[s].log = <<"SSE connection closed">>
        /\ sessions[s].wake = sessions[s].opened + HEARTBEAT_INTERVAL
        /\ now > sessions[s].opened
        /\ Len(sessions[s].events) = 2

\* the span of _execute_tool among the spans of the last exchange
ToolSpans == {i \in DOMAIN spans : "tool" \in DOMAIN spans[i]}

\* C25 as stated: with tracing on, a tools/call of a registered tool with a
\* mapping of arguments hands the tracer a span with the tool name, the
\* argument count and the outcome, and the outcome is failure exactly when
\* the tool function or the reading of its arguments raised; with tracing
\* off the tracer gets nothing and the call is answered
C25_SpanTellsOutcome ==
    (IsNamedCall /\ IsRegistered(ReqName) /\ ReqArguments.t = "map") =>
        IF tracing
        THEN \E i \in ToolSpans :
                /\ spans[i].tool = ReqName.v
                /\ {"arguments_count", "success"} \subseteq DOMAIN spans[i]
                /\ spans[i].arguments_count = PyLen(ReqArguments)
                /\ spans[i].success = ~call.caught
        ELSE spans = <<>> /\ response.status = 200

\* C27 as stated: the answer to a tools/call request, status and body, is
\* the answer the server with the other tracing setting gives to it in the
\* same state
C27_TracingDoesNotShow ==
    [][(Exchanged /\ IsCall') =>
        \E uuid \in Uuids :
            \E r \in {handle_mcp_request(tools, request', uuid, now, ~tracing,
                                         arsenal_cache, status_cache)} :
                response' = [status |-> r.status, body |-> r.body]]_vars

\* C28 as stated: health's total_tools, the TOTAL ARSENAL line of
\* get_complete_kali_arsenal_info and the Arsenal line of
\* generate_kali_security_report all show the number of standard tools plus
\* the number of bleeding-edge tools
C28_ArsenalCountedOnce ==
    LET n == get_standard_tool_count + BLEEDING_EDGE_CONFIG.additional_tools_count
    IN  /\ HealthAsked => health.body.total_tools = n
        /\ (Posted /\ response.status = 200 /\ HasResult /\ ~call.caught
                /\ call.invoked = "get_complete_kali_arsenal_info") =>
                (ResultText[1] = "**TOTAL ARSENAL: " /\ ResultText[2] = IntStr(n))
        /\ (Posted /\ response.status = 200 /\ HasResult /\ ~call.caught
                /\ call.invoked = "generate_kali_security_report") =>
                (ResultText[6] = "- **Arsenal**: " /\ ResultText[7] = IntStr(n))

\* the fragments after which a text carries the time of the call
TimeLabels == {"- **Timestamp**: ", "- **Generated**: ", "**Report Generated**: "}

\* a text with the times of the call blanked
Untimed(text) ==
    [i \in DOMAIN text |-> IF i > 1 /\ text[i - 1] \in TimeLabels THEN "" ELSE text[i]]

\* the tools/call request answered last is posted again and answered again,
\* after any clicks and any time
SameCallAgain ==
    /\ IsNamedCall /\ HasResult
    /\ Exchanged /\ request' = request
    /\ HasResult'

\* C26 as stated: a tools/call posted again with the same name and the same
\* arguments is answered with the same text
C26_SameCallSameText ==
    [][SameCallAgain => (ResultText' = ResultText)]_vars

\* C26: a tools/call posted again with the same name and the same arguments
\* is answered with the same text apart from the time of the call in the
\* Timestamp line of a scan and the Generated lines of a report; for every
\* other tool, and for calls that fail, the two texts are equal
C26_SameCallSameTextButTime ==
    [][SameCallAgain =>
        /\ Untimed(ResultText') = Untimed(ResultText)
        /\ (ReqName.v \notin {"run_kali_security_scan", "generate_kali_security_report"}
              \/ call.caught) => (ResultText' = ResultText)]_vars

C26_Witness ==
    /\ IsNamedCall /\ HasResult /\ ~call.caught
    /\ ReqName.v = "run_kali_security_scan"
    /\ ResultText[6] = "- **Timestamp**: " /\ ResultText[7] = TimeStr(1)
    /\ ui.fn = "get_bleeding_edge_status"

\* C29: once built, the texts of get_complete_kali_arsenal_info and
\* get_bleeding_edge_status are never built again: the caches keep their
\* value, every tools/call and every click of the two tools returns the
\* cached text, and the Last Sync time of the status text is the time of the
\* first call, not of the call that returns it
C29_ComputedOnce ==
    /\ [][/\ arsenal_cache.set => (arsenal_cache' = arsenal_cache)
          /\ status_cache.set => (status_cache' = status_cache)]_vars
    /\ [](/\ (Posted /\ response.status = 200 /\ call.invoked = "get_bleeding_edge_status") =>
                (status_cache.set /\ ResultText = status_cache.val)
          /\ (Posted /\ response.status = 200
                   /\ call.invoked = "get_complete_kali_arsenal_info") =>
                (arsenal_cache.set /\ ResultText = arsenal_cache.val)
          /\ ui.fn = "get_bleeding_edge_status" =>
                (status_cache.set /\ ui.out.ok /\ ui.out.val = status_cache.val)
          /\ ui.fn = "get_complete_kali_arsenal_info" =>
                (arsenal_cache.set /\ ui.out.ok /\ ui.out.val = arsenal_cache.val)
          /\ status_cache.set =>
                \E t0 \in 0..now :
                    /\ status_cache.val[4] = "- **Last Sync**: "
                    /\ status_cache.val[5] = TimeStr(t0)
                    /\ (ui.fn = "get_bleeding_edge_status" => t0 <= ui.at))

C29_Witness ==
    /\ ui.fn = "get_bleeding_edge_status" /\ ui.at >= 1
    /\ ui.out.val[5] = TimeStr(0)
    /\ Posted /\ response.status = 200 /\ call.invoked = "get_bleeding_edge_status"
    /\ ResultText = ui.out.val

====
